---- MODULE Spec2Model ----
(***************************************************************************)
(* Model of the Auto-Reader playback engine (the script embedded in        *)
(* src/app.py, get_tts_component) together with the browser objects it     *)
(* drives: the speechSynthesis queue and the localStorage position slot.   *)
(*                                                                         *)
(* JavaScript runs every handler to completion on one thread, so each      *)
(* handler is one atomic action.  Handlers are written as operators on a   *)
(* record holding the script's variables, so that a handler calling        *)
(* another (onend -> speakChunk -> stop) is a composition of operators.    *)
(* Strings are sequences of one-character strings.                         *)
(***************************************************************************)
EXTENDS Integers, Sequences, FiniteSets, TLC

\* ------------------------------------------------------------------ bounds
MaxChunks == 2
MaxWords == 2
MaxStale == 1
\* word boundaries are followed up to this offset (an utterance started past
\* the end of its chunk would otherwise count without limit)
MaxOffset == 3
\* uploaded texts have at most this many characters
MaxText == 5
\* largest min_length the chunker is called with
MaxMin == 3
\* largest number of paragraphs of the longer texts
MaxParas == 2

\* ----------------------------------------------------------- text helpers
Alphabet == <<"a", "b", "c", "d", "e">>

\* /\s/ restricted to the whitespace the model's texts contain
IsWs(c) == c \in {" ", "\n"}

RECURSIVE SplitFrom(_, _, _, _)
SplitFrom(t, i, cur, acc) ==
    IF i > Len(t)
    THEN IF cur = <<>> THEN acc ELSE Append(acc, cur)
    ELSE IF IsWs(t[i])
         THEN SplitFrom(t, i + 1, <<>>, IF cur = <<>> THEN acc ELSE Append(acc, cur))
         ELSE SplitFrom(t, i + 1, Append(cur, t[i]), acc)

\* text.split(/\s+/).filter(w => w)
SplitWords(text) == SplitFrom(text, 1, <<>>, <<>>)

\* words.join(" ")
RECURSIVE JoinSp(_)
JoinSp(ws) ==
    IF ws = <<>> THEN <<>>
    ELSE IF Len(ws) = 1 THEN ws[1]
    ELSE ws[1] \o <<" ">> \o JoinSp(Tail(ws))

\* words.slice(k)
SliceFrom(ws, k) == IF k >= Len(ws) THEN <<>> ELSE SubSeq(ws, k + 1, Len(ws))

\* ------------------------------------------------------- input documents
\* separator after word j: double blank, line break, or single blank
SepAfter(j) == IF j % 3 = 1 THEN <<" ", " ">> ELSE IF j % 3 = 2 THEN <<"\n">> ELSE <<" ">>

RECURSIVE MakeText(_, _)
MakeText(nw, j) ==
    IF j > nw THEN <<>>
    ELSE IF j = nw THEN <<Alphabet[j]>>
    ELSE <<Alphabet[j]>> \o SepAfter(j) \o MakeText(nw, j + 1)

\* a document of n chunks; chunk i (1-based) has (i % MaxWords) + 1 words
MakeDoc(n) == [i \in 1..n |-> MakeText((i % MaxWords) + 1, 1)]

Docs == {MakeDoc(n) : n \in 0..MaxChunks}

\* ------------------------------------------------------------------ JSON
DigitChars == <<"0", "1", "2", "3", "4", "5", "6", "7", "8", "9">>

IsDigit(c) == \E d \in 1..10 : DigitChars[d] = c

DigitVal(c) == CHOOSE d \in 0..9 : DigitChars[d + 1] = c

\* decimal digits of a natural number
RECURSIVE ToDigits(_)
ToDigits(n) ==
    IF n < 10 THEN <<DigitChars[n + 1]>>
    ELSE ToDigits(n \div 10) \o <<DigitChars[(n % 10) + 1]>>

\* how JSON.stringify writes an integer
NumberText(n) == IF n < 0 THEN <<"-">> \o ToDigits(-n) ELSE ToDigits(n)

KeyChunk == <<"\"", "c", "h", "u", "n", "k", "\"">>
KeyWord == <<"\"", "w", "o", "r", "d", "\"">>

\* JSON.stringify({chunk: ..., word: ...})
JSONstringify(pos) ==
    <<"{">> \o KeyChunk \o <<":">> \o NumberText(pos.chunk) \o <<",">>
            \o KeyWord \o <<":">> \o NumberText(pos.word) \o <<"}">>

\* index after the run of digits that starts at i
RECURSIVE DigitsEnd(_, _)
DigitsEnd(t, i) == IF i <= Len(t) /\ IsDigit(t[i]) THEN DigitsEnd(t, i + 1) ELSE i

\* value of the digits t[i..j-1]
RECURSIVE DigitsValue(_, _, _, _)
DigitsValue(t, i, j, acc) ==
    IF i >= j THEN acc ELSE DigitsValue(t, i + 1, j, acc * 10 + DigitVal(t[i]))

\* a JSON integer at i: optional minus, digits, no leading zero
ParseNumber(t, i) ==
    LET neg == i <= Len(t) /\ t[i] = "-"
        b == IF neg THEN i + 1 ELSE i
        e == DigitsEnd(t, b)
        v == DigitsValue(t, b, e, 0)
    IN  IF e = b \/ (e - b > 1 /\ t[b] = "0")
        THEN [ok |-> FALSE, val |-> 0, next |-> i]
        ELSE [ok |-> TRUE, val |-> IF neg THEN 0 - v ELSE v, next |-> e]

\* index of the first quote at or after i (Len(t) + 1 if none)
RECURSIVE QuoteAt(_, _)
QuoteAt(t, i) == IF i > Len(t) \/ t[i] = "\"" THEN i ELSE QuoteAt(t, i + 1)

\* what JSON.parse gives, as far as loadPosition looks at it: a SyntaxError,
\* null, a number, or an object with its chunk and word members if present
SyntaxError == [kind |-> "error", hasChunk |-> FALSE, chunk |-> 0, hasWord |-> FALSE, word |-> 0]
EmptyObject == [kind |-> "object", hasChunk |-> FALSE, chunk |-> 0, hasWord |-> FALSE, word |-> 0]

\* the members of an object from the key at i on: "key":integer, ... }
RECURSIVE ParseMembers(_, _, _)
ParseMembers(t, i, obj) ==
    LET j == QuoteAt(t, i + 1)
    IN  IF i > Len(t) \/ t[i] # "\"" \/ j + 1 > Len(t) \/ t[j + 1] # ":"
        THEN SyntaxError
        ELSE LET key == SubSeq(t, i, j)
                 num == ParseNumber(t, j + 2)
                 obj2 == IF key = KeyChunk
                         THEN [obj EXCEPT !.hasChunk = TRUE, !.chunk = num.val]
                         ELSE IF key = KeyWord
                         THEN [obj EXCEPT !.hasWord = TRUE, !.word = num.val]
                         ELSE obj
             IN  IF ~num.ok \/ num.next > Len(t) THEN SyntaxError
                 ELSE IF t[num.next] = "}"
                      THEN IF num.next = Len(t) THEN obj2 ELSE SyntaxError
                 ELSE IF t[num.next] = ","
                      THEN ParseMembers(t, num.next + 1, obj2)
                 ELSE SyntaxError

\* JSON.parse on the texts the store can hold here: null, an integer, or an
\* object of integer members written without blanks; anything else in the
\* model's inputs is not JSON
JSONparse(t) ==
    IF t = <<"n", "u", "l", "l">>
    THEN [kind |-> "null", hasChunk |-> FALSE, chunk |-> 0, hasWord |-> FALSE, word |-> 0]
    ELSE IF t # <<>> /\ ParseNumber(t, 1).ok
    THEN IF ParseNumber(t, 1).next = Len(t) + 1
         THEN [kind |-> "number", hasChunk |-> FALSE, chunk |-> 0, hasWord |-> FALSE, word |-> 0]
         ELSE SyntaxError
    ELSE IF Len(t) >= 2 /\ t[1] = "{"
    THEN IF t = <<"{", "}">> THEN EmptyObject ELSE ParseMembers(t, 2, EmptyObject)
    ELSE SyntaxError

\* localStorage.getItem gives null for a key never written; a written slot
\* holds one string
Null == <<>>

\* what an earlier session of the script can have left under STORAGE_KEY
StoredInputs ==
    {Null} \cup {<<JSONstringify(p)>> : p \in [chunk : 0..MaxChunks, word : 0..MaxWords]}

\* outcome of cancelling a speaking utterance: the browser delivers nothing
\* more to it, or its end event, or a queued word boundary and then its end
Deliveries == {"none", "end", "bnd"}

\* -------------------------------------------------------------- the state
VARIABLES
    chunks,        \* const chunks = {chunks_json}
    currentChunk,  \* let currentChunk
    currentWord,   \* let currentWord
    isPaused,      \* let isPaused
    stored,        \* localStorage[STORAGE_KEY]: Null or <<text>>
    queue,         \* speechSynthesis queue; the head is being spoken
    stale,         \* cancelled utterances whose events are still in flight
    playBtn,       \* playBtn.disabled
    pauseBtn,      \* pauseBtn.disabled
    stopBtn,       \* stopBtn.disabled
    progress,      \* text of #progress: "Ready", "Chunk" (i of N), "Finished"
    last           \* the handler that ran last, with what it did

vars == <<chunks, currentChunk, currentWord, isPaused, stored, queue, stale,
          playBtn, pauseBtn, stopBtn, progress, last>>

N == Len(chunks)

\* the script's variables and the objects it drives, as one record;
\* threw: an uncaught exception ended the handler; spoke: chunk indexes of
\* the synth.speak calls made; saves: number of localStorage writes
St ==
    [chunks |-> chunks, currentChunk |-> currentChunk, currentWord |-> currentWord,
     isPaused |-> isPaused, stored |-> stored, queue |-> queue, stale |-> stale,
     playBtn |-> playBtn, pauseBtn |-> pauseBtn, stopBtn |-> stopBtn,
     progress |-> progress, threw |-> FALSE, spoke |-> <<>>, saves |-> 0]

\* ------------------------------------------------------ browser: synth
\* spoken words still to be announced by utterance u
WordsLeft(u) == Len(SplitWords(u.text)) - (u.swi - u.start)

\* what is still on its way to a cancelled utterance u: its end event, and
\* before it (bnd) the word boundary its closure will report as word swi
StaleOf(u, d) ==
    LET b == (d = "bnd" /\ WordsLeft(u) > 0)
    IN  [chunk |-> u.chunk, bnd |-> b, swi |-> IF b THEN u.swi ELSE 0]

\* synth.cancel(): empties the queue; the utterance being spoken may still
\* get events that were already on their way (d)
synthCancel(s, d) ==
    IF s.queue = <<>> THEN s
    ELSE [s EXCEPT
            !.queue = <<>>,
            !.stale = IF d = "none" \/ Cardinality(s.stale) >= MaxStale
                      THEN s.stale
                      ELSE s.stale \cup {StaleOf(Head(s.queue), d)}]

\* ----------------------------------------------------------- the script
savePosition(s) ==
    [s EXCEPT !.stored = <<JSONstringify([chunk |-> s.currentChunk, word |-> s.currentWord])>>,
              !.saves = s.saves + 1]

\* sets #chunkDisplay and, through updateProgress, #progress; reading
\* chunks[currentChunk] outside the array gives undefined, and .split throws
updateDisplay(s) ==
    IF Len(s.chunks) = 0 THEN s
    ELSE IF s.currentChunk \notin 0..(Len(s.chunks) - 1)
         THEN [s EXCEPT !.threw = TRUE]
         ELSE [s EXCEPT !.progress = "Chunk"]

stop(s, d) ==
    LET s1 == [s EXCEPT !.isPaused = FALSE]
        s2 == synthCancel(s1, d)
        s3 == savePosition(s2)
    IN  [s3 EXCEPT !.playBtn = FALSE, !.pauseBtn = TRUE, !.stopBtn = TRUE]

\* the text handed to new SpeechSynthesisUtterance(...)
textToSpeak(text, word) ==
    LET words == SplitWords(text)
    IN  IF word > 0 /\ word < Len(words)
        THEN JoinSp(SliceFrom(words, word))
        ELSE text

speakChunk(s, d) ==
    IF s.currentChunk >= Len(s.chunks) THEN stop(s, d)
    ELSE IF s.currentChunk < 0 THEN [s EXCEPT !.threw = TRUE]
    ELSE LET text == s.chunks[s.currentChunk + 1]
             u == [chunk |-> s.currentChunk,
                   text |-> textToSpeak(text, s.currentWord),
                   start |-> s.currentWord,
                   swi |-> s.currentWord]
             s1 == [s EXCEPT !.queue = Append(s.queue, u),
                             !.spoke = Append(s.spoke, s.currentChunk)]
         IN  updateDisplay(s1)

\* utterance.onboundary with event.name === "word"; k is the closure's
\* spokenWordIndex (the caller stores k + 1 back into the utterance)
onboundary(s, k) ==
    LET s1 == [s EXCEPT !.currentWord = k]
        s2 == updateDisplay(s1)
    IN  IF s2.threw THEN s2 ELSE savePosition(s2)

\* onend comparing with <= : the end of the last chunk asks for chunk N
onend_offByOne(s, d) ==
    IF s.isPaused THEN s
    ELSE LET s1 == [s EXCEPT !.currentChunk = s.currentChunk + 1, !.currentWord = 0]
             s2 == savePosition(s1)
         IN  IF s2.currentChunk <= Len(s2.chunks)
             THEN speakChunk(s2, d)
             ELSE [stop(s2, d) EXCEPT !.progress = "Finished"]

\* onend without the isPaused test
onend_noPauseTest(s, d) ==
    LET s1 == [s EXCEPT !.currentChunk = s.currentChunk + 1, !.currentWord = 0]
        s2 == savePosition(s1)
    IN  IF s2.currentChunk < Len(s2.chunks)
        THEN speakChunk(s2, d)
        ELSE [stop(s2, d) EXCEPT !.progress = "Finished"]

onend(s, d) ==
    IF s.isPaused THEN s
    ELSE LET s1 == [s EXCEPT !.currentChunk = s.currentChunk + 1, !.currentWord = 0]
             s2 == savePosition(s1)
         IN  IF s2.currentChunk < Len(s2.chunks)
             THEN speakChunk(s2, d)
             ELSE [stop(s2, d) EXCEPT !.progress = "Finished"]

\* utterance.onerror: console.error only
onerror(s) == s

play(s, d) ==
    IF Len(s.chunks) = 0 THEN s
    ELSE LET s1 == IF s.isPaused
                   THEN speakChunk([s EXCEPT !.isPaused = FALSE], d)
                   ELSE speakChunk(synthCancel(s, d), d)
         IN  IF s1.threw THEN s1
             ELSE [s1 EXCEPT !.playBtn = TRUE, !.pauseBtn = FALSE, !.stopBtn = FALSE]

\* pause without synth.cancel()
pause_noCancel(s, d) ==
    LET s1 == [s EXCEPT !.isPaused = TRUE]
        s3 == savePosition(s1)
    IN  [s3 EXCEPT !.playBtn = FALSE, !.pauseBtn = TRUE]

pause(s, d) ==
    LET s1 == [s EXCEPT !.isPaused = TRUE]
        s2 == synthCancel(s1, d)
        s3 == savePosition(s2)
    IN  [s3 EXCEPT !.playBtn = FALSE, !.pauseBtn = TRUE]

Max(a, b) == IF a >= b THEN a ELSE b
Min(a, b) == IF a <= b THEN a ELSE b

prevChunk(s, d) ==
    LET s1 == synthCancel(s, d)
        s2 == [s1 EXCEPT !.isPaused = TRUE,
                         !.currentChunk = Max(0, s1.currentChunk - 1),
                         !.currentWord = 0]
        s3 == updateDisplay(savePosition(s2))
    IN  IF s3.threw THEN s3
        ELSE [s3 EXCEPT !.playBtn = FALSE, !.pauseBtn = TRUE]

\* nextChunk clamping to chunks.length instead of chunks.length - 1
nextChunk_clampLength(s, d) ==
    LET s1 == synthCancel(s, d)
        s2 == [s1 EXCEPT !.isPaused = TRUE,
                         !.currentChunk = Min(Len(s1.chunks), s1.currentChunk + 1),
                         !.currentWord = 0]
        s3 == updateDisplay(savePosition(s2))
    IN  IF s3.threw THEN s3
        ELSE [s3 EXCEPT !.playBtn = FALSE, !.pauseBtn = TRUE]

nextChunk(s, d) ==
    LET s1 == synthCancel(s, d)
        s2 == [s1 EXCEPT !.isPaused = TRUE,
                         !.currentChunk = Min(Len(s1.chunks) - 1, s1.currentChunk + 1),
                         !.currentWord = 0]
        s3 == updateDisplay(savePosition(s2))
    IN  IF s3.threw THEN s3
        ELSE [s3 EXCEPT !.playBtn = FALSE, !.pauseBtn = TRUE]

resetPosition(s, d) ==
    LET s1 == synthCancel(s, d)
        s2 == [s1 EXCEPT !.isPaused = FALSE, !.currentChunk = 0, !.currentWord = 0]
        s3 == updateDisplay(savePosition(s2))
    IN  IF s3.threw THEN s3
        ELSE [s3 EXCEPT !.playBtn = FALSE, !.pauseBtn = TRUE, !.stopBtn = TRUE]

\* pos.chunk || 0
OrZero(x) == IF x = 0 THEN 0 ELSE x

\* loadPosition that does not restore currentWord
loadPosition_noWord(s) ==
    IF s.stored = Null \/ s.stored[1] = <<>> THEN updateDisplay(s)
    ELSE LET pos == JSONparse(s.stored[1])
         IN  IF pos.kind \in {"error", "null"} THEN [s EXCEPT !.threw = TRUE]
             ELSE updateDisplay(
                    [s EXCEPT
                       !.currentChunk =
                           Min(IF pos.hasChunk THEN OrZero(pos.chunk) ELSE 0,
                               Len(s.chunks) - 1)])

\* loadPosition(), the script's last top-level statement: JSON.parse throws
\* on text that is not JSON, pos.chunk throws on null, a missing member is
\* undefined and gives 0
loadPosition(s) ==
    IF s.stored = Null \/ s.stored[1] = <<>> THEN updateDisplay(s)
    ELSE LET pos == JSONparse(s.stored[1])
         IN  IF pos.kind \in {"error", "null"} THEN [s EXCEPT !.threw = TRUE]
             ELSE updateDisplay(
                    [s EXCEPT
                       !.currentChunk =
                           Min(IF pos.hasChunk THEN OrZero(pos.chunk) ELSE 0,
                               Len(s.chunks) - 1),
                       !.currentWord = IF pos.hasWord THEN OrZero(pos.word) ELSE 0])

\* ----------------------------------------------------------- the machine
ControlOps ==
    {"play", "pause", "stop", "prevChunk", "nextChunk", "resetPosition", "playAndWait"}

\* what the properties need to know about the handler that just ran: the
\* position and state it started from, the utterance the event belonged to
\* (uChunk, -1 for a button), what it did, the control operation called last
\* (ctl) with the position that operation returned with, and the same for
\* the control operation before this handler (pctl)
Event(op, s, t, k, prev) ==
    [op |-> op,
     preChunk |-> s.currentChunk, preWord |-> s.currentWord,
     prePaused |-> s.isPaused, preQueue |-> Len(s.queue),
     uChunk |-> k,
     threw |-> t.threw, spoke |-> t.spoke, saves |-> t.saves,
     ctl |-> IF op \in ControlOps THEN op ELSE prev.ctl,
     ctlChunk |-> IF op \in ControlOps THEN t.currentChunk ELSE prev.ctlChunk,
     ctlWord |-> IF op \in ControlOps THEN t.currentWord ELSE prev.ctlWord,
     pctl |-> prev.ctl, pctlChunk |-> prev.ctlChunk, pctlWord |-> prev.ctlWord]

NoControl == [ctl |-> "none", ctlChunk |-> 0, ctlWord |-> 0]

\* install the record a handler returned, noting the handler as the last event
Commit(op, s, t, k) ==
    /\ chunks' = t.chunks
    /\ currentChunk' = t.currentChunk
    /\ currentWord' = t.currentWord
    /\ isPaused' = t.isPaused
    /\ stored' = t.stored
    /\ queue' = t.queue
    /\ stale' = t.stale
    /\ playBtn' = t.playBtn
    /\ pauseBtn' = t.pauseBtn
    /\ stopBtn' = t.stopBtn
    /\ progress' = t.progress
    /\ last' = Event(op, s, t, k, last)

\* script globals as declared, buttons and #progress as in the markup
Fresh(doc, sv) ==
    [chunks |-> doc, currentChunk |-> 0, currentWord |-> 0, isPaused |-> FALSE,
     stored |-> sv, queue |-> <<>>, stale |-> {},
     playBtn |-> FALSE, pauseBtn |-> TRUE, stopBtn |-> TRUE,
     progress |-> "Ready", threw |-> FALSE, spoke |-> <<>>, saves |-> 0]

\* the page as it stands when the script has run for document doc with sv
\* under STORAGE_KEY
Start(doc, sv) ==
    LET s == Fresh(doc, sv)
        t == loadPosition(s)
    IN  /\ chunks = t.chunks
        /\ currentChunk = t.currentChunk
        /\ currentWord = t.currentWord
        /\ isPaused = t.isPaused
        /\ stored = t.stored
        /\ queue = t.queue
        /\ stale = t.stale
        /\ playBtn = t.playBtn
        /\ pauseBtn = t.pauseBtn
        /\ stopBtn = t.stopBtn
        /\ progress = t.progress
        /\ last = Event("load", s, t, -1, NoControl)

Init == \E doc \in Docs, sv \in StoredInputs : Start(doc, sv)

\* button clicks; a disabled button delivers no click
Play == /\ ~playBtn
        /\ \E d \in Deliveries : Commit("play", St, play(St, d), -1)

Pause == /\ ~pauseBtn
         /\ \E d \in Deliveries : Commit("pause", St, pause(St, d), -1)

Stop == /\ ~stopBtn
        /\ \E d \in Deliveries : Commit("stop", St, stop(St, d), -1)

PrevChunk == \E d \in Deliveries : Commit("prevChunk", St, prevChunk(St, d), -1)

NextChunk == \E d \in Deliveries : Commit("nextChunk", St, nextChunk(St, d), -1)

ResetPosition == \E d \in Deliveries : Commit("resetPosition", St, resetPosition(St, d), -1)

\* the utterance being spoken reaches its next word
SynthBoundary ==
    /\ queue # <<>>
    /\ WordsLeft(Head(queue)) > 0
    /\ Head(queue).swi <= MaxOffset
    /\ LET u == Head(queue)
           s == [St EXCEPT !.queue = <<[u EXCEPT !.swi = u.swi + 1]>> \o Tail(queue)]
       IN  Commit("boundary", St, onboundary(s, u.swi), u.chunk)

\* the utterance being spoken finishes; the synthesiser goes on to the next
\* queued one, if any
SynthEnd ==
    /\ queue # <<>>
    /\ LET u == Head(queue)
           s == [St EXCEPT !.queue = Tail(queue)]
       IN  \E d \in Deliveries : Commit("end", St, onend(s, d), u.chunk)

\* the synthesiser fails on the utterance being spoken
SynthError ==
    /\ queue # <<>>
    /\ LET u == Head(queue)
           s == [St EXCEPT !.queue = Tail(queue)]
       IN  Commit("error", St, onerror(s), u.chunk)

\* a word boundary of a cancelled utterance arrives
StaleBoundary ==
    \E r \in stale :
        /\ r.bnd
        /\ r.swi <= MaxOffset
        /\ LET r2 == [chunk |-> r.chunk, bnd |-> FALSE, swi |-> 0]
               s == [St EXCEPT !.stale = (stale \ {r}) \cup {r2}]
           IN  Commit("staleBoundary", St, onboundary(s, r.swi), r.chunk)

\* the end event of a cancelled utterance arrives
StaleEnd ==
    \E r \in stale :
        /\ ~r.bnd
        /\ LET s == [St EXCEPT !.stale = stale \ {r}]
           IN  \E d \in Deliveries : Commit("staleEnd", St, onend(s, d), r.chunk)

\* a cancelled utterance is reported through its error event instead
StaleError ==
    \E r \in stale :
        LET s == [St EXCEPT !.stale = stale \ {r}]
        IN  Commit("staleError", St, onerror(s), r.chunk)

Next ==
    \/ Play
    \/ Pause
    \/ Stop
    \/ PrevChunk
    \/ NextChunk
    \/ ResetPosition
    \/ SynthBoundary
    \/ SynthEnd
    \/ SynthError
    \/ StaleBoundary
    \/ StaleEnd
    \/ StaleError

Spec == Init /\ [][Next]_vars

\* ------------------------------------------------- listening to the end
\* the user presses Play and then leaves the page alone
PlayAndWait ==
    /\ ~playBtn
    /\ N >= 1
    /\ \E d \in Deliveries : Commit("playAndWait", St, play(St, d), -1)

\* Play was pressed for the last time; only the synthesiser acts from here
Waiting == last.ctl = "playAndWait"

\* the user's clicks and synthesiser errors stop once the user waits; the
\* events of utterances already handed to the synthesiser keep arriving
NextLive ==
    \/ ~Waiting /\ Play
    \/ ~Waiting /\ Pause
    \/ ~Waiting /\ Stop
    \/ ~Waiting /\ PrevChunk
    \/ ~Waiting /\ NextChunk
    \/ ~Waiting /\ ResetPosition
    \/ ~Waiting /\ SynthError
    \/ ~Waiting /\ StaleError
    \/ PlayAndWait
    \/ SynthBoundary
    \/ SynthEnd
    \/ StaleBoundary
    \/ StaleEnd

\* the synthesiser delivers the end event of every utterance it was given
SpecLive ==
    Init /\ [][NextLive]_vars /\ WF_vars(SynthEnd) /\ WF_vars(StaleEnd)

\* ------------------------------------------------- the store across sessions
\* a position written for a longer document, or by a foreign writer
StalePositions ==
    [chunk : (-1..(MaxChunks + 1)) \cup {12}, word : -1..MaxWords]

\* text under STORAGE_KEY that is not a position: an empty string, a record
\* cut short, the JSON null, a bare number, objects lacking members
BrokenTexts ==
    { <<>>,
      <<"{">> \o KeyChunk \o <<":", "1">>,
      <<"n", "u", "l", "l">>,
      <<"7">>,
      <<"{", "}">>,
      <<"{">> \o KeyChunk \o <<":", "1", "}">>,
      <<"{">> \o KeyWord \o <<":", "1", "}">> }

RawInputs ==
    {Null} \cup {<<JSONstringify(p)>> : p \in StalePositions}
           \cup {<<t>> : t \in BrokenTexts}

\* offsets a session can be at when it saves
SaveWords == (0..MaxOffset) \cup {10 + MaxOffset}

InitStore == \E doc \in Docs, sv \in RawInputs : Start(doc, sv)

\* the session reaches position (c, w) of its document and saves it
SaveAt ==
    /\ last.op \in {"load", "reload"}
    /\ \E c \in 0..(N - 1), w \in SaveWords :
          Commit("save", St,
                 savePosition([St EXCEPT !.currentChunk = c, !.currentWord = w]), -1)

\* the page is opened again for the same document: the script runs afresh
\* over what the store holds
Reload ==
    /\ last.op = "save"
    /\ Commit("reload", St, loadPosition(Fresh(chunks, stored)), -1)

NextStore == SaveAt \/ Reload

SpecStore == InitStore /\ [][NextStore]_vars

\* ------------------------------------------- chunking (src/extractors.py)
\* str.strip(): whitespace removed at both ends
RECURSIVE LStrip(_)
LStrip(t) == IF t # <<>> /\ IsWs(Head(t)) THEN LStrip(Tail(t)) ELSE t

RECURSIVE RStrip(_)
RStrip(t) ==
    IF t # <<>> /\ IsWs(t[Len(t)]) THEN RStrip(SubSeq(t, 1, Len(t) - 1)) ELSE t

Strip(t) == RStrip(LStrip(t))

\* last index of the run of whitespace that starts at i
RECURSIVE WsEnd(_, _)
WsEnd(t, i) == IF i < Len(t) /\ IsWs(t[i + 1]) THEN WsEnd(t, i + 1) ELSE i

\* where a match of \n\s*\n that starts at i ends: the last line feed of the
\* whitespace run at i (i itself when the pattern does not match at i)
SepEnd(t, i) ==
    LET nls == {k \in (i + 1)..WsEnd(t, i) : t[k] = "\n"}
    IN  IF t[i] # "\n" \/ nls = {} THEN i
        ELSE CHOOSE k \in nls : \A j \in nls : j <= k

\* re.split(r"\n\s*\n", text): the pieces between the leftmost matches
RECURSIVE ReSplit(_, _, _, _)
ReSplit(t, i, from, acc) ==
    IF i > Len(t) THEN Append(acc, SubSeq(t, from, Len(t)))
    ELSE IF SepEnd(t, i) > i
         THEN ReSplit(t, SepEnd(t, i) + 1, SepEnd(t, i) + 1,
                      Append(acc, SubSeq(t, from, i - 1)))
         ELSE ReSplit(t, i + 1, from, acc)

\* the for loop over raw_chunks, from raw chunk j on
RECURSIVE MergeLoop(_, _, _, _, _)
MergeLoop(raw, j, buffer, out, min_length) ==
    IF j > Len(raw) THEN [chunks |-> out, buffer |-> buffer]
    ELSE LET chunk == Strip(raw[j])
         IN  IF chunk = <<>> THEN MergeLoop(raw, j + 1, buffer, out, min_length)
             ELSE IF Len(buffer) + Len(chunk) < min_length
                  THEN MergeLoop(raw, j + 1, Strip(buffer \o <<" ">> \o chunk),
                                 out, min_length)
                  ELSE MergeLoop(raw, j + 1, chunk,
                                 IF buffer # <<>> THEN Append(out, buffer) ELSE out,
                                 min_length)

chunk_into_paragraphs_noFlush(text, min_length) ==
    MergeLoop(ReSplit(text, 1, 1, <<>>), 1, <<>>, <<>>, min_length).chunks

chunk_into_paragraphs(text, min_length) ==
    LET r == MergeLoop(ReSplit(text, 1, 1, <<>>), 1, <<>>, <<>>, min_length)
    IN  IF r.buffer # <<>> THEN Append(r.chunks, r.buffer) ELSE r.chunks

\* texts: a letter, blanks and line feeds
TextChars == {"a", " ", "\n"}
Texts == UNION {[1..n -> TextChars] : n \in 0..MaxText}
MinLengths == 0..MaxMin

\* def chunk_into_paragraphs(text, min_length=50)
DefaultMinLength == 50

\* texts of whole paragraphs, two of which do or do not reach the default
\* length together, a blank line between
ParaLengths == {1, (DefaultMinLength \div 2) - 1, DefaultMinLength \div 2}

Para(n) == [i \in 1..n |-> "a"]

RECURSIVE JoinParas(_)
JoinParas(ps) ==
    IF Len(ps) = 1 THEN Para(ps[1])
    ELSE Para(ps[1]) \o <<"\n", "\n">> \o JoinParas(Tail(ps))

LongTexts ==
    {JoinParas(ps) : ps \in UNION {[1..n -> ParaLengths] : n \in 1..MaxParas}}

\* what clean_text can return: runs of blanks are single, at most two line
\* feeds in a row, no whitespace at either end
IsCleaned(t) ==
    /\ Strip(t) = t
    /\ \A i \in 1..(Len(t) - 1) : ~(t[i] = " " /\ t[i + 1] = " ")
    /\ \A i \in 1..(Len(t) - 2) : ~(t[i] = "\n" /\ t[i + 1] = "\n" /\ t[i + 2] = "\n")

CleanedTexts == {t \in Texts \cup LongTexts : IsCleaned(t)}

\* the page's variables while no page exists yet
NoPage(ev) ==
    LET s == Fresh(<<>>, Null)
    IN  /\ chunks = s.chunks
        /\ currentChunk = s.currentChunk
        /\ currentWord = s.currentWord
        /\ isPaused = s.isPaused
        /\ stored = s.stored
        /\ queue = s.queue
        /\ stale = s.stale
        /\ playBtn = s.playBtn
        /\ pauseBtn = s.pauseBtn
        /\ stopBtn = s.stopBtn
        /\ progress = s.progress
        /\ last = ev

\* main: a file has been extracted and cleaned; the call that follows passes
\* no min_length, so the default applies
Upload(text) ==
    NoPage([op |-> "upload", text |-> text, min_length |-> DefaultMinLength])

\* a caller about to call chunk_into_paragraphs(text, min_length)
Call(text, min_length) ==
    NoPage([op |-> "call", text |-> text, min_length |-> min_length])

InitChunker ==
    \/ \E text \in CleanedTexts : Upload(text)
    \/ \E text \in Texts \cup LongTexts, m \in MinLengths \cup {DefaultMinLength} :
          Call(text, m)

\* main: chunks = chunk_into_paragraphs(cleaned_text)
ChunkText ==
    /\ last.op = "upload"
    /\ chunks' = chunk_into_paragraphs(last.text, DefaultMinLength)
    /\ last' = [last EXCEPT !.op = "chunked"]
    /\ UNCHANGED <<currentChunk, currentWord, isPaused, stored, queue, stale,
                   playBtn, pauseBtn, stopBtn, progress>>

\* the function called with both arguments given
ChunkCall ==
    /\ last.op = "call"
    /\ chunks' = chunk_into_paragraphs(last.text, last.min_length)
    /\ last' = [last EXCEPT !.op = "returned"]
    /\ UNCHANGED <<currentChunk, currentWord, isPaused, stored, queue, stale,
                   playBtn, pauseBtn, stopBtn, progress>>

NextChunker == ChunkText \/ ChunkCall

SpecChunker == InitChunker /\ [][NextChunker]_vars

TypeOK ==
    /\ chunks \in Docs
    /\ currentChunk \in -1..(MaxChunks + MaxStale)
    /\ currentWord \in 0..MaxOffset
    /\ isPaused \in BOOLEAN
    /\ Cardinality(stale) <= MaxStale
    /\ Len(queue) <= MaxStale + 1
\* ------------------------------------------------------------ vocabulary
\* the persisted position is the in-memory one
Persisted == stored = <<JSONstringify([chunk |-> currentChunk, word |-> currentWord])>>

\* the script keeps no PlaybackState variable; the state is read off isPaused
\* and the synthesiser's queue
Playing == queue # <<>> /\ ~isPaused
Paused == queue = <<>> /\ isPaused
Stopped == queue = <<>> /\ ~isPaused

\* number of whitespace-separated words of chunk c (0-based)
NumWords(c) == Len(SplitWords(chunks[c + 1]))

\* chunk_into_paragraphs has returned, to main or to another caller
Chunked == last.op \in {"chunked", "returned"}

\* the non-empty paragraphs of a text, in document order
Paragraphs(text) ==
    LET raw == ReSplit(text, 1, 1, <<>>)
        stripped == [j \in 1..Len(raw) |-> Strip(raw[j])]
    IN  SelectSeq(stripped, LAMBDA p : p # <<>>)

\* ----------------------------------------------------------------- claims
\* C1: with N >= 1 chunks the position always satisfies
\* 0 <= chunkIndex < N and offset >= 0, also after the last chunk has ended.
C1_PositionInRange ==
    N >= 1 => (0 <= currentChunk /\ currentChunk < N /\ currentWord >= 0)

\* C2: a word-boundary or end event of an utterance that a control operation
\* already cancelled is discarded: it changes neither the position, the
\* persisted position nor the playback state, and speaks nothing.
C2_StaleEventDiscarded ==
    [][last'.op \in {"staleBoundary", "staleEnd"} =>
          /\ currentChunk' = currentChunk
          /\ currentWord' = currentWord
          /\ stored' = stored
          /\ isPaused' = isPaused
          /\ queue' = queue
          /\ last'.spoke = <<>>]_vars

\* C3: at most one utterance is outstanding (speaking or queued) at the
\* synthesiser at any time.
C3_OneUtterance == Len(queue) <= 1

\* C4: stop() while Playing or Paused leaves the engine Stopped with the
\* offset reset to 0, chunkIndex unchanged and (chunkIndex, 0) persisted.
C4_StopResetsOffset ==
    (N >= 1 /\ last.op = "stop") =>
        /\ queue = <<>>
        /\ ~isPaused
        /\ currentChunk = last.preChunk
        /\ currentWord = 0
        /\ stored = <<JSONstringify([chunk |-> last.preChunk, word |-> 0])>>
\* C5: when the utterance of the last chunk ends naturally the engine is
\* Stopped (no utterance active, not paused) and shows the finished
\* status, and no speak request is ever made for a chunk index >= N.
C5_LastChunkEnds ==
    /\ (N >= 1 /\ last.op = "end" /\ last.uChunk = N - 1) =>
          /\ Stopped
          /\ progress = "Finished"
    /\ \A i \in 1..Len(last.spoke) : last.spoke[i] < N
    /\ \A i \in 1..Len(queue) : queue[i].chunk < N

\* the last chunk of a document of several chunks has just ended by itself
C5_Witness ==
    /\ N >= 2
    /\ last.op = "end" /\ last.uChunk = N - 1 /\ last.preChunk = N - 1
    /\ progress = "Finished"

\* C6: when the utterance of chunk i < N-1 ends naturally while Playing,
\* chunkIndex becomes i+1 and offset 0, that position is persisted, and the
\* speak request for chunk i+1 is issued at once, the engine still Playing.
C6_MidChunkEnds ==
    (N >= 1 /\ last.op = "end" /\ last.uChunk < N - 1 /\ ~last.prePaused) =>
        /\ currentChunk = last.uChunk + 1
        /\ currentWord = 0
        /\ Persisted
        /\ last.spoke = <<last.uChunk + 1>>
        /\ Playing

\* C7: nextChunk() sets chunkIndex to min(chunkIndex+1, N-1), prevChunk()
\* to max(chunkIndex-1, 0); both reset offset to 0, persist the position and
\* leave the engine Paused.
C7_NavigationClamps ==
    (N >= 1 /\ last.op \in {"prevChunk", "nextChunk"}) =>
        /\ last.op = "nextChunk" =>
              currentChunk = (IF last.preChunk + 1 <= N - 1 THEN last.preChunk + 1 ELSE N - 1)
        /\ last.op = "prevChunk" =>
              currentChunk = (IF last.preChunk - 1 >= 0 THEN last.preChunk - 1 ELSE 0)
        /\ currentWord = 0
        /\ Persisted
        /\ Paused

\* nextChunk() was pressed on the last chunk while it was being spoken
C7_Witness ==
    /\ N >= 2
    /\ last.op = "nextChunk" /\ last.preChunk = N - 1 /\ last.preQueue > 0
    /\ currentChunk = N - 1

\* C8: after prevChunk() or nextChunk(), until the next control operation,
\* nothing is spoken and chunkIndex stays where the navigation left it, also
\* when the end event of the cancelled utterance arrives afterwards.
C8_NoAutoResume ==
    last.ctl \in {"prevChunk", "nextChunk"} =>
        /\ currentChunk = last.ctlChunk
        /\ queue = <<>>
        /\ last.spoke = <<>>

\* the end event of the utterance that a navigation cancelled has arrived
\* while a further chunk follows the current one
C8_Witness ==
    /\ N >= 2
    /\ last.ctl \in {"prevChunk", "nextChunk"} /\ last.op = "staleEnd"
    /\ currentChunk < N - 1

\* C9: pause() at offset k, a word index of the current chunk, followed by
\* play() as the next call hands the synthesiser exactly the chunk's words
\* from index k onward, with chunkIndex unchanged.
C9_ResumeFromPausedWord ==
    (/\ N >= 1
     /\ last.op = "play"
     /\ last.pctl = "pause"
     /\ last.pctlChunk \in 0..(N - 1)
     /\ last.pctlWord < NumWords(last.pctlChunk)) =>
        /\ currentChunk = last.pctlChunk
        /\ queue # <<>>
        /\ SplitWords(queue[Len(queue)].text)
             = SliceFrom(SplitWords(chunks[last.pctlChunk + 1]), last.pctlWord)

\* C10: whenever a control operation or a synthesis callback changes
\* chunkIndex or offset, the persisted position equals the in-memory one
\* when that handler completes.
C10_PersistedAfterChange ==
    (/\ last.op # "load"
     /\ (currentChunk # last.preChunk \/ currentWord # last.preWord)) =>
        Persisted
\* C11: when the synthesiser reports an error for the chunk being spoken the
\* engine ends Paused (Play available, Pause not available), chunkIndex is
\* not advanced and no other chunk is requested.
C11_ErrorPauses ==
    (N >= 1 /\ last.op = "error") =>
        /\ Paused
        /\ ~playBtn /\ pauseBtn
        /\ currentChunk = last.preChunk
        /\ last.spoke = <<>>

\* C14: with an empty chunk list every transport operation is a no-op: it
\* leaves chunkIndex and offset unchanged, writes nothing to the store and
\* speaks nothing.
C14_EmptyIsNoOp ==
    (N = 0 /\ last.op \in ControlOps) =>
        /\ currentChunk = last.preChunk
        /\ currentWord = last.preWord
        /\ last.saves = 0
        /\ last.spoke = <<>>

\* C16: with N >= 1, play() in Idle, Stopped or Paused results in Playing:
\* exactly one utterance is active, it is for the chunk at the stored
\* chunkIndex and starts at the stored offset, and the controls show Playing.
C16_PlayStartsPlaying ==
    (N >= 1 /\ last.op = "play" /\ last.preQueue = 0) =>
        /\ Playing
        /\ Len(queue) = 1
        /\ currentChunk = last.preChunk /\ currentWord = last.preWord
        /\ queue[1].chunk = last.preChunk
        /\ queue[1].start = last.preWord
        /\ playBtn /\ ~pauseBtn /\ ~stopBtn

\* C17: pause() while Playing halts output (no utterance remains active),
\* leaves the engine Paused with chunkIndex and offset unchanged, and
\* persists exactly that position.
C17_PauseKeepsPosition ==
    (last.op = "pause" /\ last.preQueue > 0 /\ ~last.prePaused) =>
        /\ Paused
        /\ currentChunk = last.preChunk
        /\ currentWord = last.preWord
        /\ Persisted
        /\ last.saves = 1

\* pause() was pressed in the middle of a chunk of a longer document
C17_Witness ==
    /\ N >= 2
    /\ last.op = "pause" /\ last.preQueue > 0
    /\ currentWord > 0
\* C12: initialising with N chunks and a stored position whose chunkIndex
\* is >= N sets chunkIndex to N-1, raises no error and gives no negative
\* index, whatever N is (the placeholder page has N = 0).
C12_StaleChunkClamped ==
    \A p \in StalePositions :
        (/\ last.op \in {"load", "reload"}
         /\ p.chunk >= N
         /\ stored = <<JSONstringify(p)>>) =>
            /\ ~last.threw
            /\ currentChunk = N - 1
            /\ currentChunk >= 0

\* C13: any malformed or stale stored position is tolerated at
\* initialisation: loading raises no error and yields 0 <= chunkIndex < N
\* and offset >= 0.
C13_MalformedTolerated ==
    (N >= 1 /\ last.op = "load") =>
        /\ ~last.threw
        /\ 0 <= currentChunk /\ currentChunk < N
        /\ currentWord >= 0

\* C15: the persisted position round-trips: saving a valid position and
\* loading it for the same document yields exactly that position.
C15_RoundTrip ==
    (N >= 1 /\ last.op = "reload") =>
        /\ ~last.threw
        /\ currentChunk = last.preChunk
        /\ currentWord = last.preWord

\* a position with a two-digit offset in the second chunk came back
C15_Witness ==
    /\ N = 2
    /\ last.op = "reload"
    /\ currentChunk = 1
    /\ currentWord = 10 + MaxOffset

\* C18: chunk_into_paragraphs merges every paragraph shorter than min_length
\* into its successor: no returned chunk other than the last is shorter than
\* min_length.
C18_ShortMergedForward ==
    Chunked =>
        \A j \in 1..(Len(chunks) - 1) : Len(chunks[j]) >= last.min_length

\* C19: chunk_into_paragraphs returns only non-empty chunks, and the chunks in
\* order hold every non-empty paragraph of the text exactly once, in document
\* order: joined by single blanks they are the paragraphs joined by single
\* blanks, and their words are the words of the text.
C19_NothingDropped ==
    Chunked =>
        /\ \A j \in 1..Len(chunks) : chunks[j] # <<>>
        /\ JoinSp(chunks) = JoinSp(Paragraphs(last.text))
        /\ SplitWords(JoinSp(chunks)) = SplitWords(last.text)

\* an uploaded text whose last paragraph is short and follows another
\* paragraph has been chunked
C19_Witness ==
    /\ last.op = "chunked"
    /\ Len(Paragraphs(last.text)) >= 2
    /\ Len(Paragraphs(last.text)[Len(Paragraphs(last.text))]) < last.min_length
    /\ Len(chunks) >= 2

\* what has run since Play was pressed for the last time spoke in order: Play
\* started the chunk at the position, each later utterance was started by the
\* end of the utterance of the chunk before it, which was the current chunk,
\* and nothing else started one or had two outstanding
C20_InOrder ==
    Waiting =>
        /\ Len(queue) <= 1
        /\ last.op = "playAndWait" =>
              last.spoke = IF last.preChunk \in 0..(N - 1)
                           THEN <<last.preChunk>> ELSE <<>>
        /\ last.op = "end" =>
              /\ last.uChunk = last.preChunk
              /\ last.spoke = IF last.preChunk + 1 < N
                              THEN <<last.preChunk + 1>> ELSE <<>>
        /\ last.op \notin {"playAndWait", "end"} => last.spoke = <<>>

\* C20: when play() is called with N >= 1 at chunk i, the user does nothing
\* more and every utterance gets its end event without error, the engine
\* speaks chunks i, i+1, ..., N-1 once each in that order and eventually is
\* Stopped showing the finished status.
C20_PlaysToTheEnd ==
    /\ []C20_InOrder
    /\ Waiting ~> (Stopped /\ progress = "Finished")

\* C21: the offset always designates a word of the current chunk: with
\* N >= 1, also right after loading a stored position, offset is smaller than
\* the number of whitespace-separated words of chunk chunkIndex, and the j-th
\* word boundary of an utterance started at offset k sets offset to k + j - 1.
C21_OffsetIsWord ==
    N >= 1 =>
        /\ currentChunk \in 0..(N - 1) => currentWord < NumWords(currentChunk)
        /\ (last.op = "boundary" /\ queue # <<>>) =>
              currentWord = Head(queue).swi - 1

\* C22: the transport controls never strand the user: with N >= 1 and no
\* utterance speaking or queued the Play button is enabled; Play is disabled
\* and Pause enabled only while an utterance is being spoken.
C22_PlayNeverStranded ==
    N >= 1 =>
        /\ queue = <<>> => ~playBtn
        /\ (playBtn /\ ~pauseBtn) => queue # <<>>

====
